---- MODULE Spec2Model ----
(***************************************************************************)
(* Model of the concurrent search aggregator of watchreadlisten            *)
(* (src/main.go): SearchHandler, Search with its three goroutines joined   *)
(* by a sync.WaitGroup, and the title normalizer truncate.                 *)
(*                                                                         *)
(* A Go string is modelled as the sequence of its bytes (naturals), since  *)
(* len(s) and s[:l] in Go count and cut bytes.                             *)
(***************************************************************************)
EXTENDS Integers, Sequences, FiniteSets, TLC

VARIABLES
    pc,          \* position of the handler / Search caller goroutine
    q,           \* the query string handed to SearchHandler and Search
    wg,          \* counter of the sync.WaitGroup
    upc,         \* position of each of the three goroutines
    res,         \* per goroutine: what the client call returned (items, err)
    loc,         \* per goroutine: its local copy of the items (movies/books/albums)
    idx,         \* per goroutine: number of range iterations completed
    slot,        \* the named results m, g, s of Search
    log,         \* lines printed by fmt.Println, in order
    calls,       \* per client: the queries it has been called with, in order
    ntrunc,      \* per goroutine: number of calls of truncate made
    finishOrder, \* the goroutines in the order in which they ran wg.Done
    ret,         \* what Search returned to its caller
    access,      \* per result variable m, g, s: the goroutines' reads and writes of it, in order
    cfgErr,      \* the error parseYAML returned to SearchHandler
    tpc,         \* truncate harness: position
    ts,          \* truncate harness: argument s
    tsuf,        \* truncate harness: argument suf
    tl,          \* truncate harness: argument l
    tout,        \* truncate harness: truncate(s, suf, l)
    tout2        \* truncate harness: truncate(truncate(s, suf, l), suf, l)

searchVars == <<pc, q, wg, upc, res, loc, idx, slot, log, calls, ntrunc, finishOrder, ret,
                access, cfgErr>>
truncVars == <<tpc, ts, tsuf, tl, tout, tout2>>
vars == <<pc, q, wg, upc, res, loc, idx, slot, log, calls, ntrunc, finishOrder, ret,
          access, cfgErr, tpc, ts, tsuf, tl, tout, tout2>>

----------------------------------------------------------------------------
(* Bounds of the model *)

\* largest number of items a client returns
MaxItems == 2
\* longest string drawn for the truncate harness (besides the long title)
MaxLen == 3
\* largest small bound l drawn for the truncate harness (besides 60)
MaxL == 4

----------------------------------------------------------------------------
(* Program constants *)

\* a counter set for two goroutines only
WgAddTwo == 1 + 1

\* a counter set for one goroutine more than are started
WgAddFour == 1 + 3

\* wg.Add(3)
WgAdd == 3
\* the bound passed to truncate by Search
TitleBound == 60
\* the suffix "..." passed to truncate by Search
Suffix == <<46, 46, 46>>

\* the three sources, by the tag Search prints for them
Units == {"rt", "gr", "sp"}
\* the order in which Search starts the goroutines
LaunchOrder == <<"rt", "gr", "sp">>
\* the template keys under which SearchHandler hands on m, g, s
SlotNames == {"Movies", "Books", "Albums"}
SlotOf(u) == CASE u = "rt" -> "Movies" [] u = "gr" -> "Books" [] u = "sp" -> "Albums"

\* a nil error
NoErr == "nil"
\* messages of the errors a client may return
Errors == {"timeout"}

----------------------------------------------------------------------------
(* Strings *)

\* "The Extraordinarily Long Title That Exceeds Sixty Characters Total" (66 bytes)
LongTitle ==
    <<84, 104, 101, 32, 69, 120, 116, 114, 97, 111, 114, 100, 105, 110, 97, 114,
      105, 108, 121, 32, 76, 111, 110, 103, 32, 84, 105, 116, 108, 101, 32, 84,
      104, 97, 116, 32, 69, 120, 99, 101, 101, 100, 115, 32, 83, 105, 120, 116,
      121, 32, 67, 104, 97, 114, 97, 99, 116, 101, 114, 115, 32, 84, 111, 116,
      97, 108>>
\* "Up"
ShortTitle == <<85, 112>>
\* the empty query and the query "dune"
Queries == {<<>>, <<100, 117, 110, 101>>}

\* the outcome of a call that ends in a run-time panic (no byte is negative)
Panic == <<-1>>

\* s[:l] + suf: the slice panics unless 0 <= l <= len(s)
Cut(s, suf, l) ==
    IF 0 <= l /\ l <= Len(s) THEN SubSeq(s, 1, l) \o suf ELSE Panic

\* truncate with the guard dropped: the suffix is appended to every title
truncateAlways(s, suf, l) ==
    IF Len(s) < l THEN s \o suf ELSE Cut(s, suf, l)

\* truncate with the guard len(s) <= l
truncateLeq(s, suf, l) ==
    IF Len(s) <= l THEN s ELSE Cut(s, suf, l)

\* truncate without the length check: every string is sliced
truncateNoGuard(s, suf, l) == Cut(s, suf, l)

\* func truncate(s, suf string, l int) string
truncate(s, suf, l) ==
    IF Len(s) < l THEN s ELSE Cut(s, suf, l)

----------------------------------------------------------------------------
(* Items and client results *)

\* the titles the clients' items carry: 59, 66, 2 and 60 bytes long
TitleList == <<SubSeq(LongTitle, 1, 59), LongTitle, ShortTitle, SubSeq(LongTitle, 1, 60)>>

Offset(u) == CASE u = "rt" -> 0 [] u = "gr" -> 1 [] u = "sp" -> 2

\* the i-th item of source u: a title, and fields Search never inspects
Item(u, i) ==
    [id |-> <<u, i>>,
     title |-> TitleList[((i + Offset(u)) % Len(TitleList)) + 1],
     link |-> <<u, "link", i>>]

\* the first n items of source u
Catalog(u, n) == [i \in 1..n |-> Item(u, i)]

\* the (items, err) pairs a client call may return
ClientResults(u) ==
    {[items |-> Catalog(u, n), err |-> e] : n \in 0..MaxItems, e \in {NoErr} \cup Errors}

\* the loop body without the call of truncate
NormalizeItemSkip(it) == it

\* mov.Title = truncate(mov.Title, "...", 60), and the same for w.BestBook.Title, a.Name
NormalizeItem(it) == [it EXCEPT !.title = truncate(it.title, Suffix, TitleBound)]

\* every failure printed under the tag of the first goroutine
ErrRecordRt(u, e) == [src |-> "rt", msg |-> e]

\* fmt.Println("ERROR (rt): ", err.Error()), and the same for gr and sp
ErrRecord(u, e) == [src |-> u, msg |-> e]

\* a result list filled in the order in which the goroutines finished
BundleByCompletion(mv, bk, al) ==
    LET bySrc == [u \in Units |-> CASE u = "rt" -> mv [] u = "gr" -> bk [] u = "sp" -> al]
        names == <<"Movies", "Books", "Albums">>
    IN  [n \in SlotNames |->
            LET k == CHOOSE j \in 1..3 : names[j] = n
            IN  IF k <= Len(finishOrder) THEN bySrc[finishOrder[k]] ELSE <<>>]

\* a result map that holds only the sources that did not fail
BundleDropFailed(mv, bk, al) ==
    LET full == [Movies |-> mv, Books |-> bk, Albums |-> al]
    IN  [n \in {SlotOf(u) : u \in {v \in Units : res[v].err = NoErr}} |-> full[n]]

\* return m, g, s: the three values SearchHandler receives as Movies, Books, Albums
Bundle(mv, bk, al) == [Movies |-> mv, Books |-> bk, Albums |-> al]

----------------------------------------------------------------------------
(* Initial state *)

NoResult == [items |-> <<>>, err |-> NoErr]

TruncIdle ==
    /\ tpc = "off"
    /\ ts = <<>>
    /\ tsuf = <<>>
    /\ tl = 0
    /\ tout = <<>>
    /\ tout2 = <<>>

SearchInit ==
    /\ pc = "handler"
    /\ wg = 0
    /\ upc = [u \in Units |-> "idle"]
    /\ res = [u \in Units |-> NoResult]
    /\ loc = [u \in Units |-> <<>>]
    /\ idx = [u \in Units |-> 0]
    /\ slot = [u \in Units |-> <<>>]
    /\ log = <<>>
    /\ calls = [u \in Units |-> <<>>]
    /\ ntrunc = [u \in Units |-> 0]
    /\ finishOrder = <<>>
    /\ ret = <<>>
    /\ access = [u \in Units |-> <<>>]
    /\ cfgErr = NoErr

Init ==
    /\ q \in Queries
    /\ SearchInit
    /\ TruncIdle

----------------------------------------------------------------------------
(* SearchHandler *)

\* the four places where parseYAML returns an error
ConfigErrors == {"ReadFile", "rt", "gr.key", "gr.secret"}

\* http.Error without the return after it: the handler goes on to Search
AfterConfigErrorGoOn == "add"

\* http.Error(w, err.Error(), 500); return
AfterConfigError == "http500"

\* parseYAML returns an error: http.Error and return, Search is not called
ParseYAMLFail ==
    /\ pc = "handler"
    /\ cfgErr' \in ConfigErrors
    /\ pc' = AfterConfigError
    /\ UNCHANGED <<q, wg, upc, res, loc, idx, slot, log, calls, ntrunc, finishOrder, ret, access>>
    /\ UNCHANGED truncVars

\* parseYAML succeeds: the clients are built and Search is called
ParseYAMLOk ==
    /\ pc = "handler"
    /\ pc' = "add"
    /\ UNCHANGED <<q, wg, upc, res, loc, idx, slot, log, calls, ntrunc, finishOrder, ret, access, cfgErr>>
    /\ UNCHANGED truncVars

----------------------------------------------------------------------------
(* Search: the calling goroutine *)

GoPc(u) == CASE u = "rt" -> "go_rt" [] u = "gr" -> "go_gr" [] u = "sp" -> "go_sp"
AfterGo(u) == CASE u = "rt" -> "go_gr" [] u = "gr" -> "go_sp" [] u = "sp" -> "wait"

\* wg.Add(3)
SearchAdd ==
    /\ pc = "add"
    /\ wg' = wg + WgAdd
    /\ pc' = GoPc(LaunchOrder[1])
    /\ UNCHANGED <<q, upc, res, loc, idx, slot, log, calls, ntrunc, finishOrder, ret, access, cfgErr>>
    /\ UNCHANGED truncVars

\* go func(q string) {...}(q)
SearchGo(u) ==
    /\ pc = GoPc(u)
    /\ upc' = [upc EXCEPT ![u] = "call"]
    /\ pc' = AfterGo(u)
    /\ UNCHANGED <<q, wg, res, loc, idx, slot, log, calls, ntrunc, finishOrder, ret, access, cfgErr>>
    /\ UNCHANGED truncVars

\* wg.Wait() unblocks at counter 0; return m, g, s
SearchReturn ==
    /\ pc = "wait"
    /\ wg = 0
    /\ ret' = Bundle(slot["rt"], slot["gr"], slot["sp"])
    /\ pc' = "returned"
    /\ UNCHANGED <<q, wg, upc, res, loc, idx, slot, log, calls, ntrunc, finishOrder, access, cfgErr>>
    /\ UNCHANGED truncVars

----------------------------------------------------------------------------
(* Search: the three goroutines *)

\* if err != nil
Failed(u) == res[u].err # NoErr

\* a loop that is skipped once another source has failed
RangeLenCancel(u) ==
    IF \E v \in Units \ {u} : res[v].err # NoErr THEN 0 ELSE Len(loc[u])

\* for ... := range movies / books.Search.Works / albums.Albums
RangeLen(u) == Len(loc[u])

\* an empty query replaced by "*" before it is passed on
QueryArgDefault == IF q = <<>> THEN <<42>> ELSE q

\* the parameter q of each goroutine: go func(q string) {...}(q)
QueryArg == q

\* the result variable a goroutine writes: rt m, gr g, sp s
WriteTarget(u) == u

\* wg.Done() run twice by a goroutine
DoneDeltaTwice == 1 + 1

\* wg.Done() decrements the counter by one
DoneDelta == 1

\* rtClient.SearchMovies(q) is entered, and the same for gr and sp: the
\* client has the query and the goroutine blocks until the client returns
UnitCall(u) ==
    /\ upc[u] = "call"
    /\ calls' = [calls EXCEPT ![u] = Append(@, QueryArg)]
    /\ upc' = [upc EXCEPT ![u] = "incall"]
    /\ UNCHANGED <<pc, q, wg, res, loc, idx, slot, log, ntrunc, finishOrder, ret, access, cfgErr>>
    /\ UNCHANGED truncVars

\* movies, err := ...: the client returns and the goroutine has its results
UnitReturn(u) ==
    /\ upc[u] = "incall"
    /\ \E r \in ClientResults(u) :
          /\ res' = [res EXCEPT ![u] = r]
          /\ loc' = [loc EXCEPT ![u] = r.items]
    /\ upc' = [upc EXCEPT ![u] = "check"]
    /\ UNCHANGED <<pc, q, wg, idx, slot, log, calls, ntrunc, finishOrder, ret, access, cfgErr>>
    /\ UNCHANGED truncVars

\* if err != nil { fmt.Println("ERROR (..): ", err.Error()) }; execution goes on
UnitCheck(u) ==
    /\ upc[u] = "check"
    /\ log' = IF Failed(u) THEN Append(log, ErrRecord(u, res[u].err)) ELSE log
    /\ upc' = [upc EXCEPT ![u] = "loop"]
    /\ UNCHANGED <<pc, q, wg, res, loc, idx, slot, calls, ntrunc, finishOrder, ret, access, cfgErr>>
    /\ UNCHANGED truncVars

\* one iteration of the range loop: rt appends the normalized copy to m,
\* gr and sp store it back into their local books / albums
UnitLoop(u) ==
    /\ upc[u] = "loop"
    /\ idx[u] < RangeLen(u)
    /\ LET i == idx[u] + 1
           it == NormalizeItem(loc[u][i])
       IN  /\ idx' = [idx EXCEPT ![u] = i]
           /\ IF u = "rt"
              THEN /\ slot' = [slot EXCEPT ![WriteTarget(u)] = Append(@, it)]
                   /\ access' = [access EXCEPT ![WriteTarget(u)] =
                                     @ \o <<[by |-> u, op |-> "read"], [by |-> u, op |-> "write"]>>]
                   /\ loc' = loc
              ELSE /\ loc' = [loc EXCEPT ![u][i] = it]
                   /\ slot' = slot
                   /\ access' = access
    /\ ntrunc' = [ntrunc EXCEPT ![u] = @ + 1]
    /\ UNCHANGED <<pc, q, wg, upc, res, log, calls, finishOrder, ret, cfgErr>>
    /\ UNCHANGED truncVars

\* the range is exhausted; gr and sp then assign g = books / s = albums
UnitLoopEnd(u) ==
    /\ upc[u] = "loop"
    /\ idx[u] >= RangeLen(u)
    /\ slot' = IF u = "rt" THEN slot ELSE [slot EXCEPT ![WriteTarget(u)] = loc[u]]
    /\ access' = IF u = "rt" THEN access
                 ELSE [access EXCEPT ![WriteTarget(u)] = Append(@, [by |-> u, op |-> "write"])]
    /\ upc' = [upc EXCEPT ![u] = "done"]
    /\ UNCHANGED <<pc, q, wg, res, loc, idx, log, calls, ntrunc, finishOrder, ret, cfgErr>>
    /\ UNCHANGED truncVars

\* defer wg.Done(): the last step of the goroutine
UnitDone(u) ==
    /\ upc[u] = "done"
    /\ wg' = wg - DoneDelta
    /\ finishOrder' = Append(finishOrder, u)
    /\ upc' = [upc EXCEPT ![u] = "finished"]
    /\ UNCHANGED <<pc, q, res, loc, idx, slot, log, calls, ntrunc, ret, access, cfgErr>>
    /\ UNCHANGED truncVars

\* any step of goroutine u
UnitStep(u) ==
    \/ UnitCall(u)
    \/ UnitReturn(u)
    \/ UnitCheck(u)
    \/ UnitLoop(u)
    \/ UnitLoopEnd(u)
    \/ UnitDone(u)

Next ==
    \/ ParseYAMLFail
    \/ ParseYAMLOk
    \/ SearchAdd
    \/ \E u \in Units : SearchGo(u)
    \/ \E u \in Units : UnitCall(u)
    \/ \E u \in Units : UnitReturn(u)
    \/ \E u \in Units : UnitCheck(u)
    \/ \E u \in Units : UnitLoop(u)
    \/ \E u \in Units : UnitLoopEnd(u)
    \/ \E u \in Units : UnitDone(u)
    \/ SearchReturn

Spec == Init /\ [][Next]_vars

----------------------------------------------------------------------------
(* truncate as a function: every input of a bounded set is truncated, and  *)
(* the result truncated again with the same suffix and bound               *)

\* the bytes 'a' and 'b'
Alphabet == {97, 98}

SeqsUpTo(S, n) == UNION {[1..k -> S] : k \in 0..n}

\* the characters 'a' (one byte) and 'e' with acute accent (two bytes in UTF-8)
Chars == {<<97>>, <<195, 169>>}

RECURSIVE Flatten(_)
\* the bytes of a sequence of characters
Flatten(cs) == IF cs = <<>> THEN <<>> ELSE Head(cs) \o Flatten(Tail(cs))

\* the UTF-8 strings of at most MaxLen of these characters
Utf8Strings == {Flatten(cs) : cs \in SeqsUpTo(Chars, MaxLen)}

TruncStrings ==
    SeqsUpTo(Alphabet, MaxLen) \cup Utf8Strings \cup {LongTitle, SubSeq(LongTitle, 1, TitleBound)}
TruncSuffixes == {<<>>, <<46>>, Suffix}
\* l is an int: a negative bound is drawn too
TruncBounds == ((-1)..MaxL) \cup {TitleBound}

TruncInit ==
    /\ q = <<>>
    /\ SearchInit
    /\ tpc = "args"
    /\ ts \in TruncStrings
    /\ tsuf \in TruncSuffixes
    /\ tl \in TruncBounds
    /\ tout = <<>>
    /\ tout2 = <<>>

\* truncate(s, suf, l)
TruncateOnce ==
    /\ tpc = "args"
    /\ tout' = truncate(ts, tsuf, tl)
    /\ tpc' = IF tout' = Panic THEN "panic" ELSE "once"
    /\ UNCHANGED <<ts, tsuf, tl, tout2>>
    /\ UNCHANGED searchVars

\* truncate(truncate(s, suf, l), suf, l)
TruncateTwice ==
    /\ tpc = "once"
    /\ tout2' = truncate(tout, tsuf, tl)
    /\ tpc' = "twice"
    /\ UNCHANGED <<ts, tsuf, tl, tout>>
    /\ UNCHANGED searchVars

TruncNext ==
    \/ TruncateOnce
    \/ TruncateTwice

TruncSpec == TruncInit /\ [][TruncNext]_vars

----------------------------------------------------------------------------
(* Properties of Search *)

\* what the loop of a goroutine makes of the items its client returned
Normalized(items) ==
    [i \in 1..Len(items) |->
        [items[i] EXCEPT !.title = truncate(@, Suffix, TitleBound)]]

Returned == pc = "returned"

\* C1: Search has returned only if each of the three goroutines has run to
\* its end: none is still about to call its client, checking the error,
\* normalizing, or has its slot or its wg.Done still to do.
C1_JoinBarrier ==
    Returned => \A u \in Units : upc[u] = "finished" /\ idx[u] = Len(res[u].items)

C1_Witness ==
    /\ Returned
    /\ \E u \in Units : Failed(u)
    /\ \E u \in Units : ~Failed(u) /\ Len(res[u].items) = MaxItems

\* C2: whichever sources fail, once all goroutines have finished Search can
\* return, and what it returns has exactly the three slots Movies, Books,
\* Albums, each a list; the call never ends as an error of the handler.
C2_AlwaysThreeSlots ==
    /\ (pc = "wait" /\ \A u \in Units : upc[u] = "finished") => ENABLED SearchReturn
    /\ Returned =>
          /\ DOMAIN ret = SlotNames
          /\ \A n \in SlotNames : DOMAIN ret[n] = 1..Len(ret[n])
    /\ (\E u \in Units : upc[u] # "idle") => pc # "http500"

C2_Witness ==
    /\ Returned
    /\ \A u \in Units : Failed(u)

\* C3: a goroutine that has started and not finished can always take its
\* next step, whatever the other sources returned; the slot of a goroutine
\* that is through its loop, and that slot in the returned bundle, are
\* determined by what its own client returned.
C3_FailureIsolation ==
    \A u \in Units :
        /\ upc[u] \in {"call", "incall", "check", "loop", "done"} => ENABLED UnitStep(u)
        /\ upc[u] \in {"done", "finished"} =>
              /\ slot[u] = Normalized(res[u].items)
              /\ ntrunc[u] = Len(res[u].items)
        /\ Returned => ret[SlotOf(u)] = Normalized(res[u].items)

C3_Witness ==
    /\ Returned
    /\ finishOrder[1] = "gr"
    /\ Failed("gr")
    /\ ~Failed("rt") /\ Len(ret.Movies) = MaxItems
    /\ ~Failed("sp") /\ Len(ret.Albums) = MaxItems

\* C4 (as claimed): when a client returned an error, the slot of that source
\* in the returned bundle is empty, whatever items came with the error.
C4_FailedSlotEmpty ==
    Returned => \A u \in Units : Failed(u) => ret[SlotOf(u)] = <<>>

\* the records printed for source u
RecordsOf(u) == {i \in 1..Len(log) : log[i].src = u}

\* C5: a goroutine that is past its error check has printed exactly one
\* record, with its own tag and the error's message, if its client returned
\* an error and none otherwise; before that it has printed none. So the
\* number of records at return is the number of failed sources.
C5_FailureRecords ==
    /\ \A u \in Units :
          IF upc[u] \in {"loop", "done", "finished"} /\ Failed(u)
          THEN /\ Cardinality(RecordsOf(u)) = 1
               /\ \A i \in RecordsOf(u) : log[i].msg = res[u].err
          ELSE RecordsOf(u) = {}
    /\ \A i \in 1..Len(log) : log[i].src \in Units
    /\ Returned => Len(log) = Cardinality({u \in Units : Failed(u)})

C5_Witness ==
    /\ Returned
    /\ Failed("gr")
    /\ ~Failed("rt")
    /\ ~Failed("sp")

\* C6: in the returned bundle the slot of each source holds the items of
\* that source and of no other, in the order in which the client returned
\* them, in whatever order the goroutines finished.
C6_OrderIndependent ==
    Returned =>
        \A u \in Units :
            /\ Len(ret[SlotOf(u)]) = Len(res[u].items)
            /\ \A i \in 1..Len(res[u].items) : ret[SlotOf(u)][i].id = res[u].items[i].id

C6_Witness ==
    /\ Returned
    /\ finishOrder = <<"sp", "gr", "rt">>
    /\ \A u \in Units : Len(res[u].items) = MaxItems

\* C7: the slot of a source that succeeded holds as many items as the
\* client returned; the title of each is truncate(title, "...", 60) of the
\* title returned, truncate was called once per item, and the other fields
\* are those returned.
C7_NormalizedOnce ==
    Returned =>
        \A u \in Units :
            ~Failed(u) =>
                /\ Len(ret[SlotOf(u)]) = Len(res[u].items)
                /\ ntrunc[u] = Len(res[u].items)
                /\ \A i \in 1..Len(res[u].items) :
                      /\ ret[SlotOf(u)][i].title = truncate(res[u].items[i].title, Suffix, TitleBound)
                      /\ ret[SlotOf(u)][i].id = res[u].items[i].id
                      /\ ret[SlotOf(u)][i].link = res[u].items[i].link

C7_Witness ==
    /\ Returned
    /\ ~Failed("rt")
    /\ Len(ret.Movies) >= 1
    /\ ret.Movies[1].title # res["rt"].items[1].title

----------------------------------------------------------------------------
(* Properties of truncate *)

Truncated == tpc \in {"once", "twice"}

\* C8: truncate(s, suf, l) is s when s is shorter than l; otherwise it is
\* the first l bytes of s followed by suf. The 66-byte title with l = 60 and
\* suf = "..." gives its first 60 bytes followed by "...".
C8_TruncateRule ==
    Truncated =>
        /\ Len(ts) < tl => tout = ts
        /\ Len(ts) >= tl =>
              /\ Len(tout) = tl + Len(tsuf)
              /\ \A i \in 1..tl : tout[i] = ts[i]
              /\ \A j \in 1..Len(tsuf) : tout[tl + j] = tsuf[j]
        /\ (ts = LongTitle /\ tl = 60 /\ tsuf = <<46, 46, 46>>) =>
              tout = [i \in 1..63 |-> IF i <= 60 THEN LongTitle[i] ELSE 46]

C8_Witness ==
    /\ tpc = "once"
    /\ ts = LongTitle
    /\ tl = TitleBound
    /\ tsuf = Suffix

\* C9 (as claimed): a string whose length is exactly l is returned unchanged.
C9_ExactLengthUnchanged ==
    (Truncated /\ Len(ts) = tl) => tout = ts

\* C10: truncating the result of truncate again, with the same suffix and
\* bound, gives that result.
C10_Idempotent ==
    tpc = "twice" => tout2 = tout

C10_Witness ==
    /\ tpc = "twice"
    /\ Len(ts) > tl
    /\ tsuf # <<>>
    /\ tout # ts

----------------------------------------------------------------------------
(* Characters of a UTF-8 string *)

\* a byte 10xxxxxx continues a character begun by an earlier byte
IsContinuation(b) == b \in 128..191

\* the number of characters of s
CharCount(s) == Cardinality({i \in 1..Len(s) : ~IsContinuation(s[i])})

\* a character ends at byte k of s
CharBoundary(s, k) == k = Len(s) \/ ~IsContinuation(s[k + 1])

\* the first n characters of s (all of s if it has fewer)
CharPrefix(s, n) ==
    LET ends == {k \in 0..Len(s) : CharBoundary(s, k) /\ CharCount(SubSeq(s, 1, k)) <= n}
        last == CHOOSE k \in ends : \A j \in ends : j <= k
    IN  SubSeq(s, 1, last)

\* C11 (as claimed): for a title with multi-byte characters, truncate
\* compares the number of characters with l and keeps the first l whole
\* characters, so no character is split.
C11_CountsCharacters ==
    (Truncated /\ CharCount(ts) < Len(ts)) =>
        /\ tout = IF CharCount(ts) < tl THEN ts ELSE CharPrefix(ts, tl) \o tsuf
        /\ \A k \in 1..(Len(tout) - 1) :
              (~IsContinuation(tout[k]) /\ tout[k] >= 192) => IsContinuation(tout[k + 1])

----------------------------------------------------------------------------
(* Further properties of Search and SearchHandler *)

\* the number of writes of the result variable of v made so far
WritesOf(v) == Cardinality({i \in 1..Len(access[v]) : access[v][i].op = "write"})

\* C13 (as claimed): each of m, g, s is read and written by its own
\* goroutine only, and written once: in no state has it been written a
\* second time.
C13_EachSlotWrittenOnce ==
    \A v \in Units :
        /\ \A i \in 1..Len(access[v]) : access[v][i].by = v
        /\ WritesOf(v) <= 1

\* C14: a client is called at most once, with the query handed to the
\* handler, be it empty; a goroutine that has entered its call, whether the
\* client has returned or not, has made exactly that one call, also after
\* the call failed.
C14_EachClientCalledOnce ==
    \A u \in Units :
        /\ Len(calls[u]) <= 1
        /\ calls[u] = IF upc[u] \in {"idle", "call"} THEN <<>> ELSE <<q>>

C14_Witness ==
    /\ Returned
    /\ q = <<>>
    /\ Failed("rt")
    /\ calls["rt"] # <<>>

\* C15: when parseYAML has returned an error, the handler has answered with
\* the error and stays there: the counter was never set, no goroutine was
\* started, no client was called and Search returned nothing.
C15_ConfigFailureFirst ==
    /\ cfgErr # NoErr =>
          /\ pc = "http500"
          /\ wg = 0
          /\ \A u \in Units : upc[u] = "idle" /\ calls[u] = <<>>
          /\ ret = <<>>
          /\ ~ENABLED Next
    /\ pc = "http500" => cfgErr \in ConfigErrors

C15_Witness ==
    /\ pc = "http500"
    /\ cfgErr = "gr.secret"

\* C18: from wg.Add(3) on, the counter is the number of goroutines that
\* have not run wg.Done; it is never negative; a goroutine runs wg.Done once,
\* with its slot in its final value; so at the barrier the counter is 0 only
\* when all three slots have their final value.
C18_BarrierCounter ==
    /\ wg >= 0
    /\ pc \in {"handler", "http500", "add"} =>
          wg = 0 /\ \A u \in Units : upc[u] = "idle"
    /\ pc \notin {"handler", "http500", "add"} =>
          wg = Cardinality({u \in Units : upc[u] # "finished"})
    /\ Len(finishOrder) = Cardinality({finishOrder[i] : i \in 1..Len(finishOrder)})
    /\ \A u \in Units :
          (\E i \in 1..Len(finishOrder) : finishOrder[i] = u) <=> upc[u] = "finished"
    /\ \A u \in Units :
          upc[u] = "finished" => slot[u] = Normalized(res[u].items)
    /\ (pc \in {"wait", "returned"} /\ wg = 0) =>
          \A u \in Units : upc[u] = "finished" /\ slot[u] = Normalized(res[u].items)

C18_Witness ==
    /\ pc = "wait"
    /\ wg = 1
    /\ Len(finishOrder) = 2
    /\ Failed(finishOrder[1])
    /\ ~Failed(finishOrder[2])

----------------------------------------------------------------------------
(* Further properties of truncate *)

\* C16: for every s, suf and l >= 0 truncate returns a string and does not
\* panic: the slice s[:l] is taken only with 0 <= l <= len(s). The empty
\* title is returned as it is when l > 0 and gives suf alone when l = 0.
C16_NoFailureMode ==
    /\ tpc = "args" => ENABLED TruncateOnce
    /\ tpc = "panic" => tl < 0
    /\ (tpc # "args" /\ tl >= 0) => Truncated /\ tout # Panic
    /\ Truncated =>
          /\ tl >= 0
          /\ Len(ts) < tl \/ (0 <= tl /\ tl <= Len(ts))
          /\ DOMAIN tout = 1..Len(tout)
          /\ (ts = <<>> /\ tl > 0) => tout = <<>>
          /\ (ts = <<>> /\ tl = 0) => tout = tsuf

C16_Witness ==
    /\ tpc = "once"
    /\ ts = <<>>
    /\ tl = 0
    /\ tsuf = Suffix

----------------------------------------------------------------------------
(* Liveness: the Go scheduler runs every goroutine that can run, so the   *)
(* steps of the handler and the steps of each goroutine after its client  *)
(* call are weakly fair. The return of a client call is a matter of the   *)
(* client, not of the scheduler, and carries no fairness: a call may hang. *)

\* a step of the goroutine that runs SearchHandler and Search
MainStep ==
    \/ ParseYAMLFail
    \/ ParseYAMLOk
    \/ SearchAdd
    \/ \E u \in Units : SearchGo(u)
    \/ SearchReturn

\* a step of goroutine u other than the return of its client call
LocalStep(u) ==
    \/ UnitCall(u)
    \/ UnitCheck(u)
    \/ UnitLoop(u)
    \/ UnitLoopEnd(u)
    \/ UnitDone(u)

\* the liveness runs draw the shortest and the longest result of each client
ShortOrFull == \A u \in Units : Len(res[u].items) \in {0, MaxItems}

FairNext ==
    \/ ParseYAMLFail
    \/ ParseYAMLOk
    \/ SearchAdd
    \/ \E u \in Units : SearchGo(u)
    \/ \E u \in Units : UnitCall(u)
    \/ \E u \in Units : UnitReturn(u) /\ ShortOrFull'
    \/ \E u \in Units : UnitCheck(u)
    \/ \E u \in Units : UnitLoop(u)
    \/ \E u \in Units : UnitLoopEnd(u)
    \/ \E u \in Units : UnitDone(u)
    \/ SearchReturn

FairSpec ==
    /\ Init
    /\ [][FairNext]_vars
    /\ WF_vars(MainStep)
    /\ \A u \in Units : WF_vars(LocalStep(u))

\* the client call of u has returned
CallReturned(u) == upc[u] \notin {"idle", "call", "incall"}

\* C12 (as claimed): once Search is called it eventually returns, also when
\* a client call never returns.
C12_SearchAlwaysReturns == (pc = "add") ~> Returned

\* C17: if each of the three client calls eventually returns, with items or
\* with an error, then Search eventually returns. A call that has returned
\* stays returned, so "each call eventually returns" is "eventually all
\* three have returned", and the claim is that this leads to the return.
C17_ReturnsIfClientsReturn ==
    (\A u \in Units : CallReturned(u)) ~> Returned

C17_Witness ==
    /\ Returned
    /\ Failed("rt")
    /\ ~Failed("gr")
    /\ Failed("sp")
    /\ finishOrder[3] = "rt"

====
